---- MODULE Spec2Model ----
(***************************************************************************)
(* Live Job Finder (src/app.py): the Streamlit script as a state machine.  *)
(* Strings are sequences of one-character strings, dicts are functions     *)
(* whose DOMAIN is the set of keys present, floats that carry a score are  *)
(* fixed-point hundredths, and the double products of the salary range are *)
(* computed bit for bit.                                                   *)
(***************************************************************************)
EXTENDS Integers, Sequences, FiniteSets, TLC

VARIABLES
    \* ---- the pure-function harnesses
    job_title,      \* argument of ai_estimate_salary
    estimate,       \* its return value, or Pending
    rank_skills,    \* arguments of semantic_match_jobs
    rank_jobs,
    rank_limit,
    rank_out,       \* its outcome, or Pending
    \* ---- the application
    method,         \* st.radio("Input method")
    skills_text,    \* st.text_input("Skills (comma separated)")
    resume,         \* st.file_uploader: NoFile or the text of the PDF
    min_score,      \* st.slider, in hundredths
    keyword_filter, \* st.text_input("Must include keyword (optional)")
    bookmarks,      \* st.session_state.bookmarks
    cache,          \* the st.cache_data entry of fetch_remotive_raw
    now,            \* wall clock, in seconds
    source,         \* what the job source answers to a GET right now
    screen,         \* what the last script run rendered and how it ended
    last            \* the widget event that caused the last script run

vars == <<job_title, estimate, rank_skills, rank_jobs, rank_limit, rank_out,
          method, skills_text, resume, min_score, keyword_filter, bookmarks,
          cache, now, source, screen, last>>

pureVars == <<job_title, estimate, rank_skills, rank_jobs, rank_limit, rank_out>>
appVars == <<method, skills_text, resume, min_score, keyword_filter, bookmarks,
             cache, now, source, screen, last>>

\* A call is pending, or has ended in a value or in an exception.
Pending == [status |-> "pending"]

Ok(v) == [status |-> "ok", value |-> v]

Raise(e) == [status |-> e]

Range(s) == {s[i] : i \in DOMAIN s}

Min(a, b) == IF a <= b THEN a ELSE b

(***************************************************************************)
(* Text: str.lower, str.strip, str.split(","), " ".join, `in`.             *)
(***************************************************************************)
LowerLetters ==
    <<"a","b","c","d","e","f","g","h","i","j","k","l","m",
      "n","o","p","q","r","s","t","u","v","w","x","y","z">>

UpperLetters ==
    <<"A","B","C","D","E","F","G","H","I","J","K","L","M",
      "N","O","P","Q","R","S","T","U","V","W","X","Y","Z">>

Digits == {"0","1","2","3","4","5","6","7","8","9"}

SP == <<" ">>

LowerChar(c) ==
    IF \E i \in DOMAIN UpperLetters : UpperLetters[i] = c
    THEN LowerLetters[CHOOSE i \in DOMAIN UpperLetters : UpperLetters[i] = c]
    ELSE c

UpperChar(c) ==
    IF \E i \in DOMAIN LowerLetters : LowerLetters[i] = c
    THEN UpperLetters[CHOOSE i \in DOMAIN LowerLetters : LowerLetters[i] = c]
    ELSE c

\* str.lower()
Lower(s) == [i \in 1..Len(s) |-> LowerChar(s[i])]

Upper(s) == [i \in 1..Len(s) |-> UpperChar(s[i])]

\* needle in haystack
Contains(haystack, needle) ==
    \E i \in 0..(Len(haystack) - Len(needle)) :
        \A j \in 1..Len(needle) : haystack[i + j] = needle[j]

\* str.strip()
RECURSIVE LStrip(_)
LStrip(s) == IF s # <<>> /\ Head(s) = " " THEN LStrip(Tail(s)) ELSE s

RECURSIVE RStrip(_)
RStrip(s) ==
    IF s # <<>> /\ s[Len(s)] = " " THEN RStrip(SubSeq(s, 1, Len(s) - 1)) ELSE s

Strip(s) == RStrip(LStrip(s))

\* str.split(",")
RECURSIVE SplitFrom(_, _, _, _)
SplitFrom(s, i, cur, acc) ==
    IF i > Len(s) THEN Append(acc, cur)
    ELSE IF s[i] = "," THEN SplitFrom(s, i + 1, <<>>, Append(acc, cur))
    ELSE SplitFrom(s, i + 1, Append(cur, s[i]), acc)

SplitComma(s) == SplitFrom(s, 1, <<>>, <<>>)

\* " ".join(parts)
RECURSIVE JoinSpace(_)
JoinSpace(parts) ==
    IF parts = <<>> THEN <<>>
    ELSE IF Len(parts) = 1 THEN parts[1]
    ELSE parts[1] \o SP \o JoinSpace(Tail(parts))

(***************************************************************************)
(* TfidfVectorizer(stop_words="english") and cosine_similarity.            *)
(***************************************************************************)
IsWordChar(c) ==
    \/ c \in Range(LowerLetters)
    \/ c \in Range(UpperLetters)
    \/ c \in Digits
    \/ c = "_"

\* token_pattern (?u)\b\w\w+\b: the maximal runs of two or more word characters
Flush(acc, cur) == IF Len(cur) >= 2 THEN Append(acc, cur) ELSE acc

RECURSIVE TokensFrom(_, _, _, _)
TokensFrom(s, i, cur, acc) ==
    IF i > Len(s) THEN Flush(acc, cur)
    ELSE IF IsWordChar(s[i]) THEN TokensFrom(s, i + 1, Append(cur, s[i]), acc)
    ELSE TokensFrom(s, i + 1, <<>>, Flush(acc, cur))

Tokenize(s) == TokensFrom(s, 1, <<>>, <<>>)

\* The members of sklearn's ENGLISH_STOP_WORDS that the texts of this model use.
ENGLISH_STOP_WORDS ==
    { <<"f","u","l","l">>, <<"t","h","e">>, <<"a","n","d">>, <<"o","f">> }

\* Mutant of Analyzer: lowercase=False, the tokens keep their letter case.
AnalyzerCaseSensitive(doc) ==
    SelectSeq(Tokenize(doc), LAMBDA t : t \notin ENGLISH_STOP_WORDS)

\* build_analyzer(): lowercase, tokenize, drop the stop words
Analyzer(doc) ==
    SelectSeq(Tokenize(Lower(doc)), LAMBDA t : t \notin ENGLISH_STOP_WORDS)

\* 1000 * ln(k), k = 1..12
LnMilli == <<0, 693, 1099, 1386, 1609, 1792, 1946, 2079, 2197, 2303, 2398, 2485>>

\* smooth idf, ln((1 + n) / (1 + df)) + 1, in hundredths
Idf(n, df) == (LnMilli[1 + n] - LnMilli[1 + df] + 1000 + 5) \div 10

RECURSIVE ISqrtFrom(_, _)
ISqrtFrom(n, r) == IF (r + 1) * (r + 1) > n THEN r ELSE ISqrtFrom(n, r + 1)

RECURSIVE ISqrt(_)
ISqrt(n) == IF n < 4 THEN ISqrtFrom(n, 0) ELSE ISqrtFrom(n, 2 * ISqrt(n \div 4))

RECURSIVE SumOver(_, _)
SumOver(S, f) ==
    IF S = {} THEN 0
    ELSE LET x == CHOOSE y \in S : TRUE IN f[x] + SumOver(S \ {x}, f)

TermCount(t, toks) == Cardinality({i \in DOMAIN toks : toks[i] = t})

DocFreq(t, docs) == Cardinality({d \in DOMAIN docs : t \in Range(docs[d])})

Vocabulary(docs) == UNION {Range(docs[d]) : d \in DOMAIN docs}

\* vectorizer.idf_ over the fitted vocabulary
IdfVector(docs) == [t \in Vocabulary(docs) |-> Idf(Len(docs), DocFreq(t, docs))]

\* the unnormalised tf-idf row of a document
TfidfRow(idf, toks) == [t \in DOMAIN idf |-> TermCount(t, toks) * idf[t]]

Dot(u, v) == SumOver(DOMAIN u, [t \in DOMAIN u |-> u[t] * v[t]])

\* ten times the l2 norm
Norm10(u) == ISqrt(100 * Dot(u, u))

\* dot / den in thousandths, at most 1; a zero row has similarity 0
Ratio(dot, den) == IF den = 0 THEN 0 ELSE Min(1000, (1000 * dot) \div den)

\* cosine similarity of two rows, in thousandths
Cosine(u, v) == Ratio(Dot(u, v), (Norm10(u) * Norm10(v)) \div 100)

\* the similarities of row q to the rows of documents 2..n
CosinesTo(q, idf, docs) ==
    [k \in 1..(Len(docs) - 1) |-> Cosine(q, TfidfRow(idf, docs[k + 1]))]

SimilaritiesWith(idf, docs) == CosinesTo(TfidfRow(idf, docs[1]), idf, docs)

\* cosine_similarity(vectors[0:1], vectors[1:]).flatten(), in thousandths
Similarities(docs) == SimilaritiesWith(IdfVector(docs), docs)

\* numpy argmax: the first index of the maximum
ArgMax(xs) ==
    CHOOSE i \in DOMAIN xs :
        /\ \A j \in DOMAIN xs : xs[j] <= xs[i]
        /\ \A j \in DOMAIN xs : j < i => xs[j] < xs[i]

(***************************************************************************)
(* IEEE-754 binary64 products.  A natural number is a little-endian        *)
(* sequence of bits; a double is mant * 2^(-scale) with a 53-bit mantissa. *)
(***************************************************************************)
MantissaBits == 53

RECURSIVE NatToBits(_)
NatToBits(n) == IF n = 0 THEN <<>> ELSE <<n % 2>> \o NatToBits(n \div 2)

RECURSIVE BitsToNat(_)
BitsToNat(b) == IF b = <<>> THEN 0 ELSE Head(b) + 2 * BitsToNat(Tail(b))

\* big-endian hexadecimal digits to little-endian bits, leading zeros dropped
RECURSIVE TrimBits(_)
TrimBits(b) ==
    IF b # <<>> /\ b[Len(b)] = 0 THEN TrimBits(SubSeq(b, 1, Len(b) - 1)) ELSE b

RECURSIVE HexToBitsRaw(_)
HexToBitsRaw(h) ==
    IF h = <<>> THEN <<>>
    ELSE LET d == h[Len(h)]
         IN  <<d % 2, (d \div 2) % 2, (d \div 4) % 2, (d \div 8) % 2>>
                 \o HexToBitsRaw(SubSeq(h, 1, Len(h) - 1))

HexToBits(h) == TrimBits(HexToBitsRaw(h))

\* n * m for a machine integer n and a bit sequence m: schoolbook, carry < n
RECURSIVE ScaleBits(_, _, _, _)
ScaleBits(n, m, i, carry) ==
    IF i > Len(m) THEN NatToBits(carry)
    ELSE LET t == n * m[i] + carry
         IN  <<t % 2>> \o ScaleBits(n, m, i + 1, t \div 2)

MulBits(n, m) == TrimBits(ScaleBits(n, m, 1, 0))

\* b + 1
IncBits(b) ==
    IF \A i \in DOMAIN b : b[i] = 1
    THEN [i \in 1..(Len(b) + 1) |-> IF i = Len(b) + 1 THEN 1 ELSE 0]
    ELSE LET k == CHOOSE i \in DOMAIN b :
                      b[i] = 0 /\ \A j \in 1..(i - 1) : b[j] = 1
         IN  [i \in DOMAIN b |-> IF i < k THEN 0 ELSE IF i = k THEN 1 ELSE b[i]]

\* round-to-nearest-even of the exact value bits * 2^(-scale) to a double
RoundToDouble(bits, scale) ==
    IF Len(bits) <= MantissaBits THEN [mant |-> bits, scale |-> scale]
    ELSE LET drop   == Len(bits) - MantissaBits
             kept   == SubSeq(bits, drop + 1, Len(bits))
             guard  == bits[drop]
             sticky == \E i \in 1..(drop - 1) : bits[i] = 1
             up     == guard = 1 /\ (sticky \/ kept[1] = 1)
             r      == IF up THEN IncBits(kept) ELSE kept
         IN  IF Len(r) > MantissaBits
             THEN [mant |-> Tail(r), scale |-> scale - drop - 1]
             ELSE [mant |-> r, scale |-> scale - drop]

\* numpy.int64 * float: the integer converts exactly, the product is rounded once
IntTimesDouble(n, f) == RoundToDouble(MulBits(n, f.mant), f.scale)

\* int(x) of a non-negative double: truncation
IntOfDouble(x) ==
    IF x.scale <= 0
    THEN BitsToNat([i \in 1..(-x.scale) |-> 0] \o x.mant)
    ELSE IF x.scale >= Len(x.mant) THEN 0
    ELSE BitsToNat(SubSeq(x.mant, x.scale + 1, Len(x.mant)))

\* float.hex(0.85) = 0x1.b333333333333p-1
Double_0_85 ==
    [mant |-> HexToBits(<<1, 11, 3, 3, 3, 3, 3, 3, 3, 3, 3, 3, 3, 3>>), scale |-> 53]

\* float.hex(1.15) = 0x1.2666666666666p+0
Double_1_15 ==
    [mant |-> HexToBits(<<1, 2, 6, 6, 6, 6, 6, 6, 6, 6, 6, 6, 6, 6>>), scale |-> 52]

\* str(n) of a non-negative integer
DecDigit == <<"0","1","2","3","4","5","6","7","8","9">>

RECURSIVE DecStr(_)
DecStr(n) ==
    IF n < 10 THEN <<DecDigit[n + 1]>>
    ELSE Append(DecStr(n \div 10), DecDigit[(n % 10) + 1])

(***************************************************************************)
(* SALARY_DATA and ai_estimate_salary.                                     *)
(***************************************************************************)
wJunior    == <<"j","u","n","i","o","r">>
wSoftware  == <<"s","o","f","t","w","a","r","e">>
wEngineer  == <<"e","n","g","i","n","e","e","r">>
wSenior    == <<"s","e","n","i","o","r">>
wBackend   == <<"b","a","c","k","e","n","d">>
wDeveloper == <<"d","e","v","e","l","o","p","e","r">>
wFull      == <<"f","u","l","l">>
wStack     == <<"s","t","a","c","k">>
wMachine   == <<"m","a","c","h","i","n","e">>
wLearning  == <<"l","e","a","r","n","i","n","g">>
wData      == <<"d","a","t","a">>
wScientist == <<"s","c","i","e","n","t","i","s","t">>
wDevops    == <<"d","e","v","o","p","s">>
wFrontend  == <<"f","r","o","n","t","e","n","d">>
wCloud     == <<"c","l","o","u","d">>
wArchitect == <<"a","r","c","h","i","t","e","c","t">>

\* the dict in insertion order: list(SALARY_DATA.keys()), list(SALARY_DATA.values())
SALARY_DATA ==
    << [title |-> JoinSpace(<<wJunior, wSoftware, wEngineer>>),    salary |-> 60000],
       [title |-> JoinSpace(<<wSoftware, wEngineer>>),             salary |-> 80000],
       [title |-> JoinSpace(<<wSenior, wSoftware, wEngineer>>),    salary |-> 110000],
       [title |-> JoinSpace(<<wBackend, wDeveloper>>),             salary |-> 90000],
       [title |-> JoinSpace(<<wFull, wStack, wDeveloper>>),        salary |-> 95000],
       [title |-> JoinSpace(<<wMachine, wLearning, wEngineer>>),   salary |-> 120000],
       [title |-> JoinSpace(<<wData, wScientist>>),                salary |-> 115000],
       [title |-> JoinSpace(<<wDevops, wEngineer>>),               salary |-> 105000],
       [title |-> JoinSpace(<<wFrontend, wDeveloper>>),            salary |-> 85000],
       [title |-> JoinSpace(<<wCloud, wArchitect>>),               salary |-> 130000] >>

\* the analysed canonical titles, the same in every call
SalaryTitleTokens == [i \in DOMAIN SALARY_DATA |-> Analyzer(SALARY_DATA[i].title)]

\* best_match_idx of line 49 (1-based)
BestMatchIdx(title) ==
    ArgMax(Similarities(<<Analyzer(title)>> \o SalaryTitleTokens))

\* the character U+2013 of the label
EN_DASH == "U+2013"

\* f"${low//1000}k {EN_DASH} ${high//1000}k"
SalaryLabel(low, high) ==
    <<"$">> \o DecStr(low \div 1000) \o <<"k", " ", EN_DASH, " ", "$">>
            \o DecStr(high \div 1000) \o <<"k">>

\* lines 53-57: the range around the estimated salary
SalaryRange(estimated_salary) ==
    SalaryLabel(IntOfDouble(IntTimesDouble(estimated_salary, Double_0_85)),
                IntOfDouble(IntTimesDouble(estimated_salary, Double_1_15)))

ai_estimate_salary(title) == SalaryRange(SALARY_DATA[BestMatchIdx(title)].salary)

(***************************************************************************)
(* semantic_match_jobs.  A call ends in a value or in an exception.        *)
(***************************************************************************)
DefaultLimit == 30

\* dict.get(key, default)
Get(job, key, default) == IF key \in DOMAIN job THEN job[key] ELSE default

\* job.get("title", "") + " " + job.get("description", "")
JobText(job) == Get(job, "title", <<>>) \o SP \o Get(job, "description", <<>>)

\* the analysed corpus [user_text] + job_texts
Corpus(skills, jobs) ==
    <<Analyzer(JoinSpace(skills))>> \o [k \in 1..Len(jobs) |-> Analyzer(JobText(jobs[k]))]

\* round(float(score), 2), in hundredths
Round2(milli) == (milli + 5) \div 10

RoundAll(sims) == [k \in DOMAIN sims |-> Round2(sims[k])]

\* line 97 and the rounding of line 106
ScoresOf(corpus) == RoundAll(Similarities(corpus))

Scores(skills, jobs) == ScoresOf(Corpus(skills, jobs))

\* the keys the loop of lines 100-108 subscripts
SubscriptedKeys == {"title", "company_name", "candidate_required_location", "url"}

MatchRecord(job, score) ==
    [title    |-> job["title"],
     company  |-> job["company_name"],
     location |-> job["candidate_required_location"],
     url      |-> job["url"],
     score    |-> score,
     salary   |-> ai_estimate_salary(job["title"])]

\* sorted(results, key=lambda x: x["score"], reverse=True): stable
InsertDesc(sorted, x) ==
    LET k == Cardinality({i \in DOMAIN sorted : sorted[i].score >= x.score})
    IN  SubSeq(sorted, 1, k) \o <<x>> \o SubSeq(sorted, k + 1, Len(sorted))

RECURSIVE SortFrom(_, _, _)
SortFrom(rs, i, acc) ==
    IF i > Len(rs) THEN acc ELSE SortFrom(rs, i + 1, InsertDesc(acc, rs[i]))

SortedDesc(rs) == SortFrom(rs, 1, <<>>)

\* xs[:limit], limit >= 0
Take(xs, limit) == SubSeq(xs, 1, Min(limit, Len(xs)))

\* lines 99-110: the records in input order, sorted and cut
RankedBy(scores, jobs, limit) ==
    Ok(Take(SortedDesc([k \in 1..Len(jobs) |-> MatchRecord(jobs[k], scores[k])]), limit))

\* the call, given the analysed corpus of line 96
MatchOver(corpus, jobs, limit) ==
    IF Vocabulary(corpus) = {}
    THEN Raise("ValueError")        \* fit_transform: empty vocabulary
    ELSE IF Len(jobs) = 0
    THEN Raise("ValueError")        \* cosine_similarity: an array of 0 samples
    ELSE IF \E k \in DOMAIN jobs : ~(SubscriptedKeys \subseteq DOMAIN jobs[k])
    THEN Raise("KeyError")
    ELSE RankedBy(ScoresOf(corpus), jobs, limit)

semantic_match_jobs(skills, jobs, limit) == MatchOver(Corpus(skills, jobs), jobs, limit)

(***************************************************************************)
(* The texts and postings the checks draw from.                            *)
(***************************************************************************)
wPython == <<"p","y","t","h","o","n">>
wReact  == <<"r","e","a","c","t">>
wChef   == <<"c","h","e","f">>
wThe    == <<"t","h","e">>

\* str.capitalize() of one word
Capitalize(w) == [i \in 1..Len(w) |-> IF i = 1 THEN UpperChar(w[i]) ELSE w[i]]

Posting(title, description, url) ==
    [title |-> title, description |-> description, company_name |-> "Acme",
     candidate_required_location |-> "Worldwide", url |-> url]

\* All but the given key.
Without(job, key) == [k \in DOMAIN job \ {key} |-> job[k]]

pChef      == Posting(Capitalize(wChef), <<"c","o","o","k","i","n","g">>, "u/chef")
pPythonDev == Posting(JoinSpace(<<Capitalize(wPython), Capitalize(wDeveloper)>>),
                      JoinSpace(<<wReact, <<"n","e","e","d","e","d">>>>), "u/pydev")
pPythonDev2 == Posting(JoinSpace(<<Upper(wPython), wDeveloper>>),
                       JoinSpace(<<wReact, <<"n","e","e","d","e","d">>>>), "u/pydev2")
pEngineer  == Posting(JoinSpace(<<Capitalize(wSoftware), Capitalize(wEngineer)>>),
                      wPython, "u/eng")
pStopOnly  == Posting(Capitalize(wThe), <<"o","f">>, "u/stop")

Idle == "idle"

\* The application as it stands before any interaction.
AppIdle ==
    /\ method = "Manual Input"
    /\ skills_text = <<>>
    /\ resume = Idle
    /\ min_score = 10
    /\ keyword_filter = <<>>
    /\ bookmarks = <<>>
    /\ cache = Idle
    /\ now = 0
    /\ source = Idle
    /\ screen = Idle
    /\ last = Idle

PureIdle ==
    /\ job_title = Idle
    /\ estimate = Idle
    /\ rank_skills = Idle
    /\ rank_jobs = Idle
    /\ rank_limit = Idle
    /\ rank_out = Idle

(***************************************************************************)
(* SpecSalary: ai_estimate_salary applied to every canonical title in      *)
(* every per-word letter case, and to titles outside the table.            *)
(***************************************************************************)
CaseStyles == {"lower", "upper", "capitalized"}

Styled(w, style) ==
    CASE style = "lower" -> w
      [] style = "upper" -> Upper(w)
      [] style = "capitalized" -> Capitalize(w)

\* every per-word case variant of a title
CaseVariants(title) ==
    LET words == Tokenize(title)
    IN  { JoinSpace([k \in DOMAIN words |-> Styled(words[k], st[k])]) :
            st \in [DOMAIN words -> CaseStyles] }

OtherTitles == { <<>>, pChef.title, pPythonDev.title, pStopOnly.title }

TitleInputs ==
    UNION { CaseVariants(SALARY_DATA[i].title) : i \in DOMAIN SALARY_DATA }
        \cup OtherTitles

InitSalary ==
    /\ job_title \in TitleInputs
    /\ estimate = Pending
    /\ rank_skills = Idle /\ rank_jobs = Idle /\ rank_limit = Idle /\ rank_out = Idle
    /\ AppIdle

EstimateSalary ==
    /\ estimate = Pending
    /\ estimate' = Ok(ai_estimate_salary(job_title))
    /\ UNCHANGED <<job_title, rank_skills, rank_jobs, rank_limit, rank_out>>
    /\ UNCHANGED appVars

NextSalary == EstimateSalary

SpecSalary == InitSalary /\ [][NextSalary]_vars

\* "$Lk - $Hk" with L = floor(0.85 * b / 1000) and H = floor(1.15 * b / 1000),
\* in exact integer arithmetic
ExactLabel(b) ==
    <<"$">> \o DecStr((85 * b) \div 100000) \o <<"k", " ", EN_DASH, " ", "$">>
            \o DecStr((115 * b) \div 100000) \o <<"k">>

\* C8: for every canonical title t of the salary table with base salary b,
\* ai_estimate_salary(t), in any letter case, selects t itself as the closest
\* canonical title and returns "$Lk - $Hk" with L = floor(0.85*b/1000) and
\* H = floor(1.15*b/1000).
C8_CanonicalTitleSalary ==
    \A i \in DOMAIN SALARY_DATA :
        (estimate.status = "ok" /\ Lower(job_title) = SALARY_DATA[i].title)
            => /\ BestMatchIdx(job_title) = i
               /\ estimate.value = ExactLabel(SALARY_DATA[i].salary)

\* C8 witness: "SOFTWARE Engineer" (base 80000) has been estimated at "$68k - $92k".
C8_Witness ==
    /\ estimate.status = "ok"
    /\ job_title = JoinSpace(<<Upper(wSoftware), Capitalize(wEngineer)>>)
    /\ estimate.value =
           <<"$", "6", "8", "k", " ", EN_DASH, " ", "$", "9", "2", "k">>

(***************************************************************************)
(* SpecRank: semantic_match_jobs applied to every skill list, every list   *)
(* of distinct postings of the pool and every limit within the bounds.     *)
(***************************************************************************)
MaxJobs == 3

MaxLimit == 3

SkillLists ==
    { <<>>, <<wDeveloper>>, <<wPython, wReact>>, <<wThe>> }

PostingPool ==
    { pChef, pPythonDev, pPythonDev2, pEngineer, pStopOnly,
      Without(pChef, "description"), Without(pEngineer, "company_name"),
      Without(pPythonDev, "title") }

\* the lists of at most n postings of the pool with pairwise distinct urls
JobLists(n) ==
    { js \in UNION { [1..k -> PostingPool] : k \in 0..n } :
        \A i, j \in DOMAIN js : i # j => js[i]["url"] # js[j]["url"] }

InitRank ==
    /\ rank_skills \in SkillLists
    /\ rank_jobs \in JobLists(MaxJobs)
    /\ rank_limit \in 0..MaxLimit
    /\ rank_out = Pending
    /\ job_title = Idle /\ estimate = Idle
    /\ AppIdle

Rank ==
    /\ rank_out = Pending
    /\ rank_out' = semantic_match_jobs(rank_skills, rank_jobs, rank_limit)
    /\ UNCHANGED <<job_title, estimate, rank_skills, rank_jobs, rank_limit>>
    /\ UNCHANGED appVars

NextRank == Rank

SpecRank == InitRank /\ [][NextRank]_vars

RankDone == rank_out # Pending

\* the position in the input of the posting a result was made from
InputIndex(jobs, r) == CHOOSE k \in DOMAIN jobs : jobs[k]["url"] = r.url

\* out is the first min(limit, |jobs|) elements of the stable descending-by-score
\* ordering of jobs
IsTopOfStableOrder(out, skills, jobs, limit) ==
    LET sc == Scores(skills, jobs)
        ix(r) == InputIndex(jobs, r)
        Before(r, k, score) == r.score > score \/ (r.score = score /\ ix(r) < k)
    IN  /\ Len(out) = Min(limit, Len(jobs))
        /\ \A i \in DOMAIN out :
               \E k \in DOMAIN jobs :
                   /\ out[i].url = jobs[k]["url"]
                   /\ out[i].title = jobs[k]["title"]
                   /\ out[i].company = jobs[k]["company_name"]
                   /\ out[i].location = jobs[k]["candidate_required_location"]
                   /\ out[i].score = sc[k]
        /\ \A i, j \in DOMAIN out : i < j =>
               /\ out[i].url # out[j].url
               /\ out[i].score >= out[j].score
               /\ Before(out[i], ix(out[j]), out[j].score)
        /\ \A k \in DOMAIN jobs :
               (\A i \in DOMAIN out : out[i].url # jobs[k]["url"])
                   => \A i \in DOMAIN out : Before(out[i], k, sc[k])

AllFields ==
    {"title", "company_name", "candidate_required_location", "description", "url"}

Complete(jobs) == \A k \in DOMAIN jobs : AllFields \subseteq DOMAIN jobs[k]

\* C1: for every skill list S, every non-empty list P of postings and every
\* limit L >= 0, semantic_match_jobs(S, P, L) returns the first min(L, |P|)
\* elements of the stable descending-by-score ordering of P.
C1_Claim ==
    (RankDone /\ rank_jobs # <<>> /\ Complete(rank_jobs))
        => /\ rank_out.status = "ok"
           /\ IsTopOfStableOrder(rank_out.value, rank_skills, rank_jobs, rank_limit)

\* C1, the part the code keeps: whenever the call returns, what it returns is
\* the first min(L, |P|) elements of the stable descending-by-score ordering.
C1_OrderWhenReturned ==
    (RankDone /\ rank_out.status = "ok")
        => IsTopOfStableOrder(rank_out.value, rank_skills, rank_jobs, rank_limit)

\* A returned ranking that reorders the input, keeps a tie in input order and
\* is cut by the limit.
C1_OrderWitness ==
    /\ RankDone /\ rank_out.status = "ok"
    /\ rank_jobs = <<pChef, pPythonDev2, pPythonDev>>
    /\ rank_limit = 2
    /\ rank_out.value[1].url = pPythonDev2["url"]
    /\ rank_out.value[2].url = pPythonDev["url"]
    /\ rank_out.value[1].score = rank_out.value[2].score
    /\ rank_out.value[1].score > 0

\* C2: semantic_match_jobs(S, []) returns an empty sequence and does not end in
\* an error.
C2_Claim ==
    (RankDone /\ rank_jobs = <<>>) => rank_out = Ok(<<>>)

\* C7: a posting that lacks one of the fields title, company_name,
\* candidate_required_location, description or url is still ranked and returned,
\* and the missing field never causes an error.
C7_Claim ==
    (/\ RankDone
     /\ rank_jobs # <<>>
     /\ ~Complete(rank_jobs)
     /\ Vocabulary(Corpus(rank_skills, rank_jobs)) # {})
        => /\ rank_out.status = "ok"
           /\ Len(rank_out.value) = Min(rank_limit, Len(rank_jobs))

\* The one field whose absence the code tolerates: description.
C7_DescriptionOnly ==
    (/\ RankDone
     /\ rank_jobs # <<>>
     /\ Vocabulary(Corpus(rank_skills, rank_jobs)) # {}
     /\ \A k \in DOMAIN rank_jobs : SubscriptedKeys \subseteq DOMAIN rank_jobs[k])
        => rank_out.status = "ok"

(***************************************************************************)
(* parse_resume and the skills input of lines 131-148.                     *)
(***************************************************************************)
COMMON_SKILLS ==
    << wPython, <<"j","a","v","a">>, <<"j","a","v","a","s","c","r","i","p","t">>,
       wReact, <<"d","j","a","n","g","o">>, <<"f","a","s","t","a","p","i">>,
       JoinSpace(<<wMachine, wLearning>>),
       JoinSpace(<<wData, <<"s","c","i","e","n","c","e">>>>),
       <<"s","q","l">>, <<"m","o","n","g","o","d","b">>, <<"n","o","d","e">> >>

\* An uploaded PDF: the text page.extract_text() gives for each page ("" for none).
Pdf(pages) == [kind |-> "pdf", pages |-> pages]

NoFile == [kind |-> "none"]

\* text += page.extract_text().lower() for the pages that have text
RECURSIVE ExtractText(_, _)
ExtractText(pages, i) ==
    IF i > Len(pages) THEN <<>>
    ELSE (IF pages[i] # <<>> THEN Lower(pages[i]) ELSE <<>>) \o ExtractText(pages, i + 1)

\* the end of the run of characters of set S that starts at i (i - 1 if none)
RECURSIVE RunEnd(_, _, _)
RunEnd(text, i, S) ==
    IF i <= Len(text) /\ text[i] \in S THEN RunEnd(text, i + 1, S) ELSE i - 1

\* re.findall(r'(\d+)\s+years?', text): the group of the first match, if any
FirstYears(text) ==
    LET Matches(i) ==
            LET d == RunEnd(text, i, Digits)
                w == RunEnd(text, d + 1, {" "})
            IN  /\ text[i] \in Digits
                /\ w > d
                /\ w + 4 <= Len(text)
                /\ SubSeq(text, w + 1, w + 4) = <<"y","e","a","r">>
        starts == {i \in DOMAIN text : Matches(i)}
    IN  IF starts = {} THEN <<>>
        ELSE LET i == CHOOSE x \in starts : \A y \in starts : x <= y
             IN  <<SubSeq(text, i, RunEnd(text, i, Digits))>>

NotSpecified == <<"N","o","t"," ","s","p","e","c","i","f","i","e","d">>

Anywhere == <<"A","n","y","w","h","e","r","e">>

\* lines 70-74
Parsed(skills, exp) ==
    [skills     |-> IF skills # <<>> THEN skills ELSE <<wDeveloper>>,
     experience |-> IF exp # <<>> THEN exp[1] ELSE NotSpecified,
     location   |-> Anywhere]

\* lines 67-68, given the extracted text
ParseText(text) ==
    Parsed(SelectSeq(COMMON_SKILLS, LAMBDA sk : Contains(text, sk)), FirstYears(text))

parse_resume(file) == ParseText(ExtractText(file.pages, 1))

\* skills = [s.strip() for s in text.lower().split(",") if s.strip()]
ManualSkills(text) ==
    LET parts == SplitComma(Lower(text))
    IN  SelectSeq([k \in DOMAIN parts |-> Strip(parts[k])], LAMBDA sk : sk # <<>>)

\* lines 142-145: the parsed resume and the st.info that shows its skills
FromResume(parsed) ==
    [skills |-> parsed.skills, location |-> parsed.location,
     messages |-> <<[kind |-> "info", skills |-> parsed.skills]>>]

\* lines 133-145: the skills and location given, and what the run has shown so far
GivenInput(m, text, file) ==
    IF m = "Manual Input"
    THEN [skills |-> ManualSkills(text), location |-> Anywhere, messages |-> <<>>]
    ELSE IF file # NoFile
    THEN FromResume(parse_resume(file))
    ELSE [skills |-> <<>>, location |-> Anywhere, messages |-> <<>>]

\* Mutant of WithDefault: the empty skill list is kept, not replaced by a default.
WithoutDefault(given) == given

\* lines 147-148: if not skills: skills = ["developer"]
WithDefault(given) ==
    IF given.skills = <<>> THEN [given EXCEPT !.skills = <<wDeveloper>>] ELSE given

\* lines 133-148
SkillsInput(m, text, file) == WithDefault(GivenInput(m, text, file))

(***************************************************************************)
(* fetch_remotive_raw under st.cache_data(ttl=600).                        *)
(***************************************************************************)
CacheTtl == 600

NoEntry == [kind |-> "none"]

Entry(value, at) == [kind |-> "entry", value |-> value, stored_at |-> at]

\* Mutant of Stored: a call that returned the empty list is not memoized.
StoredUnlessEmpty(value, at) == IF value = <<>> THEN NoEntry ELSE Entry(value, at)

\* what the decorator keeps of a call that returned: its value, whatever it is
Stored(value, at) == Entry(value, at)

\* Mutant of CacheValid: an entry is still served at the moment it expires.
CacheValidInclusive(c, t) == c.kind = "entry" /\ t - c.stored_at <= CacheTtl

\* an entry younger than the ttl is served
CacheValid(c, t) == c.kind = "entry" /\ t - c.stored_at < CacheTtl

\* What a GET to the job source does: it raises, or it answers with a status code
\* and a body that res.json() parses to a dict or fails on.
Answer(code, json) == [raises |-> FALSE, status_code |-> code, json |-> json]

Raises == [raises |-> TRUE]

Json(dict) == [valid |-> TRUE, dict |-> dict]

Malformed == [valid |-> FALSE]

\* the body of fetch_remotive_raw: the postings, or [] on any failure
fetch_remotive_raw(src) ==
    IF src.raises THEN <<>>
    ELSE IF src.status_code = 200
    THEN (IF ~src.json.valid THEN <<>> ELSE Get(src.json.dict, "jobs", <<>>))
    ELSE <<>>

(***************************************************************************)
(* The result loop of lines 165-188.                                       *)
(***************************************************************************)
\* Mutant of Skipped: a result whose score equals the threshold is dropped too.
SkippedAtThreshold(job, min, keyword) ==
    \/ job.score <= min
    \/ keyword # <<>> /\ ~Contains(Lower(job.title), Lower(keyword))

\* the two `continue` conditions
Skipped(job, min, keyword) ==
    \/ job.score < min
    \/ keyword # <<>> /\ ~Contains(Lower(job.title), Lower(keyword))

\* the results the loop renders, each with its Save button
RECURSIVE RenderFrom(_, _, _, _, _)
RenderFrom(matched, i, min, keyword, shown) ==
    IF i > Len(matched) THEN shown
    ELSE IF Skipped(matched[i], min, keyword)
    THEN RenderFrom(matched, i + 1, min, keyword, shown)
    ELSE RenderFrom(matched, i + 1, min, keyword, Append(shown, matched[i]))

Rendered(matched, min, keyword) == RenderFrom(matched, 1, min, keyword, <<>>)

(***************************************************************************)
(* linkedin_search and indeed_search.                                      *)
(***************************************************************************)
\* urllib.parse.quote over the characters of this model
QuoteChar(c) ==
    IF IsWordChar(c) \/ c \in {".", "-", "~", "/"} THEN <<c>>
    ELSE IF c = " " THEN <<"%", "2", "0">>
    ELSE <<"%", "2", "C">>       \* ","

RECURSIVE Quote(_)
Quote(str) == IF str = <<>> THEN <<>> ELSE QuoteChar(Head(str)) \o Quote(Tail(str))

linkedin_search(skills, location) ==
    [site |-> "https://www.linkedin.com/jobs/search/",
     keywords |-> Quote(JoinSpace(skills)), location |-> Quote(location)]

indeed_search(skills, location) ==
    [site |-> "https://www.indeed.com/jobs",
     q |-> Quote(JoinSpace(skills)), l |-> Quote(location)]

(***************************************************************************)
(* The script.  Every widget event runs it from the top; a button reads    *)
(* True only in the run its own click caused; a widget a run does not      *)
(* render loses its value.                                                 *)
(***************************************************************************)
\* A run in which "Find Jobs" reads False, given its skills input: the search
\* block is skipped, and with it every Save button.
IdleRun(inp, saved) ==
    [status         |-> "ok",
     searched       |-> FALSE,
     skills         |-> inp.skills,
     messages       |-> inp.messages,
     request_issued |-> FALSE,
     raw_jobs       |-> <<>>,
     matched        |-> <<>>,
     results        |-> <<>>,
     links          |-> <<>>,
     saved          |-> saved]

RunWithoutSearch(m, text, file, saved) == IdleRun(SkillsInput(m, text, file), saved)

\* lines 163-200 of a run whose ranking returned
ShownRun(inp, matched, min, keyword, saved, raw, requested, at) ==
    [status         |-> "ok",
     searched       |-> TRUE,
     at             |-> at,
     skills         |-> inp.skills,
     messages       |-> Append(inp.messages, [kind |-> "success", count |-> Len(matched)]),
     request_issued |-> requested,
     raw_jobs       |-> raw,
     matched        |-> matched,
     results        |-> Rendered(matched, min, keyword),
     links          |-> <<linkedin_search(inp.skills, inp.location),
                          indeed_search(inp.skills, inp.location)>>,
     saved          |-> saved]

\* a run that line 161 ended with an exception
FailedRun(inp, error, raw, requested, at) ==
    [status         |-> error,
     searched       |-> TRUE,
     at             |-> at,
     skills         |-> inp.skills,
     messages       |-> inp.messages,
     request_issued |-> requested,
     raw_jobs       |-> raw,
     matched        |-> <<>>,
     results        |-> <<>>,
     links          |-> <<>>,
     saved          |-> <<>>]

SearchOutcome(inp, outcome, min, keyword, saved, raw, requested, at) ==
    IF outcome.status # "ok"
    THEN FailedRun(inp, outcome.status, raw, requested, at)
    ELSE ShownRun(inp, outcome.value, min, keyword, saved, raw, requested, at)

SearchRun(inp, min, keyword, saved, raw, requested, at) ==
    SearchOutcome(inp, semantic_match_jobs(inp.skills, raw, DefaultLimit),
                  min, keyword, saved, raw, requested, at)

\* A run in which "Find Jobs" reads True, given what fetch_remotive_raw returned
\* and whether it went to the network.
RunWithSearch(m, text, file, min, keyword, saved, raw, requested, at) ==
    SearchRun(SkillsInput(m, text, file), min, keyword, saved, raw, requested, at)

\* ---- what the user and the job source can do
TickSeconds == 300

MaxNow == 900

JobsA == <<pChef, pPythonDev2, pPythonDev>>

Sources ==
    { Answer(200, Json([jobs |-> JobsA])),
      Raises,
      Answer(500, Json([error |-> "unavailable"])),
      Answer(200, Malformed) }

SkillTexts ==
    { <<>>, <<" ", ",", " ">>,
      Capitalize(wPython) \o <<",", " ">> \o Capitalize(wReact) }

ResumeFiles ==
    { Pdf(<<JoinSpace(<<Capitalize(wPython), <<"S","Q","L">>, <<"3">>,
                        <<"y","e","a","r","s">>>>)>>),
      Pdf(<< <<>> >>) }

SliderValues == {0, 10, 42}

Keywords == { <<>>, <<"D","e","v">> }

Event(widget) == [widget |-> widget]

SaveEvent(key) == [widget |-> "save", key |-> key]

Init ==
    /\ PureIdle
    /\ method = "Manual Input"
    /\ skills_text = <<>>
    /\ resume = NoFile
    /\ min_score = 10
    /\ keyword_filter = <<>>
    /\ bookmarks = <<>>
    /\ cache = NoEntry
    /\ now = 0
    /\ source \in Sources
    /\ screen = RunWithoutSearch("Manual Input", <<>>, NoFile, <<>>)
    /\ last = Event("start")

\* st.radio: the input widget of the other method is no longer rendered
SetMethod(m) ==
    /\ m # method
    /\ method' = m
    /\ skills_text' = <<>>
    /\ resume' = NoFile
    /\ screen' = RunWithoutSearch(m, <<>>, NoFile, bookmarks)
    /\ last' = Event("input")
    /\ UNCHANGED <<min_score, keyword_filter, bookmarks, cache, now, source>>
    /\ UNCHANGED pureVars

SetSkillsText(text) ==
    /\ method = "Manual Input"
    /\ text # skills_text
    /\ skills_text' = text
    /\ screen' = RunWithoutSearch(method, text, resume, bookmarks)
    /\ last' = Event("input")
    /\ UNCHANGED <<method, resume, min_score, keyword_filter, bookmarks, cache, now, source>>
    /\ UNCHANGED pureVars

UploadResume(file) ==
    /\ method = "Upload Resume"
    /\ file # resume
    /\ resume' = file
    /\ screen' = RunWithoutSearch(method, skills_text, file, bookmarks)
    /\ last' = Event("input")
    /\ UNCHANGED <<method, skills_text, min_score, keyword_filter, bookmarks, cache, now, source>>
    /\ UNCHANGED pureVars

SetMinScore(v) ==
    /\ v # min_score
    /\ min_score' = v
    /\ screen' = RunWithoutSearch(method, skills_text, resume, bookmarks)
    /\ last' = Event("input")
    /\ UNCHANGED <<method, skills_text, resume, keyword_filter, bookmarks, cache, now, source>>
    /\ UNCHANGED pureVars

SetKeyword(k) ==
    /\ k # keyword_filter
    /\ keyword_filter' = k
    /\ screen' = RunWithoutSearch(method, skills_text, resume, bookmarks)
    /\ last' = Event("input")
    /\ UNCHANGED <<method, skills_text, resume, min_score, bookmarks, cache, now, source>>
    /\ UNCHANGED pureVars

\* st.button("Find Jobs") reads True
ClickFindJobs ==
    /\ IF CacheValid(cache, now)
       THEN /\ cache' = cache
            /\ screen' = RunWithSearch(method, skills_text, resume, min_score,
                                       keyword_filter, bookmarks, cache.value, FALSE, now)
       ELSE /\ cache' = Stored(fetch_remotive_raw(source), now)
            /\ screen' = RunWithSearch(method, skills_text, resume, min_score,
                                       keyword_filter, bookmarks,
                                       fetch_remotive_raw(source), TRUE, now)
    /\ last' = Event("find")
    /\ UNCHANGED <<method, skills_text, resume, min_score, keyword_filter,
                   bookmarks, now, source>>
    /\ UNCHANGED pureVars

\* A click on the Save button of the i-th rendered result.  The run it causes
\* reads "Find Jobs" as False, so line 185 is not reached.
ClickSave(i) ==
    /\ i \in DOMAIN screen.results
    /\ screen' = RunWithoutSearch(method, skills_text, resume, bookmarks)
    /\ last' = SaveEvent(screen.results[i].url)
    /\ UNCHANGED <<method, skills_text, resume, min_score, keyword_filter,
                   bookmarks, cache, now, source>>
    /\ UNCHANGED pureVars

Tick ==
    /\ now + TickSeconds <= MaxNow
    /\ now' = now + TickSeconds
    /\ UNCHANGED <<method, skills_text, resume, min_score, keyword_filter,
                   bookmarks, cache, source, screen, last>>
    /\ UNCHANGED pureVars

SourceChanges(src) ==
    /\ src # source
    /\ source' = src
    /\ UNCHANGED <<method, skills_text, resume, min_score, keyword_filter,
                   bookmarks, cache, now, screen, last>>
    /\ UNCHANGED pureVars

Next ==
    \/ \E m \in {"Manual Input", "Upload Resume"} : SetMethod(m)
    \/ \E text \in SkillTexts : SetSkillsText(text)
    \/ \E file \in ResumeFiles \cup {NoFile} : UploadResume(file)
    \/ \E v \in SliderValues : SetMinScore(v)
    \/ \E k \in Keywords : SetKeyword(k)
    \/ ClickFindJobs
    \/ \E i \in 1..Len(JobsA) : ClickSave(i)
    \/ Tick
    \/ \E src \in Sources : SourceChanges(src)

Spec == Init /\ [][Next]_vars

(***************************************************************************)
(* The claims about the application.                                       *)
(***************************************************************************)
\* a step that is a script run with "Find Jobs" read True
FindStep ==
    /\ last'.widget = "find" /\ screen'.searched /\ screen'.at = now
    /\ now' = now /\ source' = source

\* the GET does not end in a 200 with a body that parses
FetchFails(src) == src.raises \/ src.status_code # 200 \/ ~src.json.valid

Warned == \E k \in DOMAIN screen.messages : screen.messages[k].kind = "warning"

\* C3: no search action ends in a top-level failure, whatever the outcome of the
\* network fetch: fetch -> rank -> filter -> render runs to completion.
C3_Claim == screen.searched => screen.status = "ok"

\* C4: whenever the user activates the Save button of a result rendered by the
\* preceding search, that result is appended to the bookmark list, which grows
\* by exactly that entry.
C4_Claim ==
    [][(last'.widget = "save" /\ last.widget = "find")
          => \E i \in DOMAIN screen.results :
                 /\ last'.key = screen.results[i].url
                 /\ bookmarks' = Append(bookmarks, screen.results[i])]_vars

\* C4, what the code does instead: the bookmark list stays empty.
C4_NeverSaved == bookmarks = <<>>

\* The user has provided no skills: manual input that is empty or only commas
\* and whitespace, or resume mode with no file uploaded.
NoSkillsProvided ==
    \/ /\ method = "Manual Input"
       /\ \A k \in DOMAIN skills_text : skills_text[k] \in {" ", ","}
    \/ /\ method = "Upload Resume"
       /\ resume = NoFile

\* C5: when the user has provided no skills and triggers a search, a warning is
\* shown and the search is not performed: no fetch and no ranking in that run.
C5_Claim ==
    (last.widget = "find" /\ NoSkillsProvided) => (Warned /\ ~screen.searched)

\* C5 as amended: when the user has provided no skills and triggers a search,
\* no warning is shown; the skill list is replaced by ["developer"] and the
\* fetch and the ranking are performed with it.
C5_DefaultSkillSearch ==
    (last.widget = "find" /\ NoSkillsProvided)
        => /\ ~Warned
           /\ screen.searched
           /\ screen.skills = <<wDeveloper>>
           /\ cache.kind = "entry" /\ screen.raw_jobs = cache.value
           /\ (screen.status = "ok" =>
                  /\ screen.matched # <<>>
                  /\ \A i \in DOMAIN screen.matched :
                         screen.matched[i].score
                             = Scores(<<wDeveloper>>, screen.raw_jobs)
                                   [InputIndex(screen.raw_jobs, screen.matched[i])])

\* C5 witness: a search with a skills field of commas and blanks has rendered
\* results.
C5_Witness ==
    /\ last.widget = "find"
    /\ method = "Manual Input"
    /\ skills_text = <<" ", ",", " ">>
    /\ screen.searched
    /\ screen.status = "ok"
    /\ screen.results # <<>>

\* the positions of the ranked list that pass the threshold and the keyword
KeptPositions(ranked, min, keyword) ==
    { i \in DOMAIN ranked :
        /\ ranked[i].score >= min
        /\ keyword = <<>> \/ Contains(Lower(ranked[i].title), Lower(keyword)) }

\* C6: the results rendered after a search are exactly the subsequence of the
\* ranked list, in its order, of the results whose score is >= min_score and,
\* when the keyword is non-empty, whose title contains it case-insensitively.
C6_RenderedIsFilteredSubsequence ==
    (screen.searched /\ screen.status = "ok") =>
        LET kept == KeptPositions(screen.matched, min_score, keyword_filter)
        IN  /\ Len(screen.results) = Cardinality(kept)
            /\ \A k \in DOMAIN screen.results :
                   \E i \in kept :
                       /\ Cardinality({j \in kept : j <= i}) = k
                       /\ screen.results[k] = screen.matched[i]

\* C6 witness: with the threshold at 0.42 and the keyword "Dev", the two
\* developer postings that score exactly 0.42 are rendered in ranked order and
\* the third result is dropped.
C6_Witness ==
    /\ screen.searched /\ screen.status = "ok"
    /\ min_score = 42
    /\ keyword_filter = <<"D","e","v">>
    /\ Len(screen.matched) = 3
    /\ Len(screen.results) = 2
    /\ screen.results[1].score = 42
    /\ screen.results[1].url = pPythonDev2["url"]
    /\ screen.results[2].url = pPythonDev["url"]

\* C9: a search issues a network request only when no cached result younger
\* than 600 seconds exists: a search made less than 600 seconds after the
\* request that filled the cache receives exactly the list that request
\* returned and causes no request; a search at or after expiry issues one.
C9_RequestOnlyWhenExpired ==
    [][FindStep =>
          IF cache.kind = "entry" /\ now - cache.stored_at < CacheTtl
          THEN /\ ~screen'.request_issued
               /\ screen'.raw_jobs = cache.value
               /\ cache' = cache
          ELSE /\ screen'.request_issued
               /\ screen'.raw_jobs = fetch_remotive_raw(source)
               /\ cache' = Entry(screen'.raw_jobs, now)]_vars

\* C9 witness: 300 seconds after the request that filled the cache, a search
\* got that request's postings without a request, the source being down.
C9_Witness ==
    /\ last.widget = "find"
    /\ screen.searched /\ screen.at = TickSeconds
    /\ ~screen.request_issued
    /\ cache = Entry(JobsA, 0)
    /\ now = TickSeconds
    /\ screen.raw_jobs = JobsA
    /\ FetchFails(source)

\* C10: a failed fetch is memoized like a successful one: after a fetch that
\* failed has returned the empty list, every search within the following 600
\* seconds gets the empty list from the cache without a new request, even if
\* the job source has become reachable again.
C10_FailureIsMemoized ==
    [][FindStep =>
          /\ (~(cache.kind = "entry" /\ now - cache.stored_at < CacheTtl)
                 /\ FetchFails(source))
                 => cache' = Entry(<<>>, now)
          /\ (cache.kind = "entry" /\ now - cache.stored_at < CacheTtl
                 /\ cache.value = <<>>)
                 => /\ screen'.raw_jobs = <<>>
                    /\ ~screen'.request_issued
                    /\ cache' = cache]_vars

\* C10 witness: the source answers 200 with postings, yet the search got the
\* empty list memoized 300 seconds earlier, without a request.
C10_Witness ==
    /\ last.widget = "find"
    /\ screen.searched /\ screen.at = TickSeconds
    /\ ~screen.request_issued
    /\ screen.raw_jobs = <<>>
    /\ cache = Entry(<<>>, 0)
    /\ now = TickSeconds
    /\ ~FetchFails(source)

====
